---- MODULE Spec2Model ----
(***************************************************************************)
(* GPIO Bridge (gpio_bridge.py): keyboard input is decoded into key        *)
(* tokens, each recognised token starts a daemon thread that pulses one    *)
(* GPIO pin through sysfs, and shutdown drives every pin HIGH.             *)
(*                                                                         *)
(* The main thread is modelled statement by statement (mainpc); every      *)
(* pulse thread by its three pin writes; the terminal by the queue of      *)
(* bytes typed and not yet read; sysfs by the level of every chip pin and  *)
(* the set of pins whose value file can be written.                        *)
(***************************************************************************)
EXTENDS Integers, Sequences, FiniteSets, TLC

\* ------------------------------------------------------------------ bounds
\* pulse threads started in one run
MaxPulses == 2
\* bytes typed on the terminal in one run
MaxTyped == 3
\* pin writes that fail although the pin is configured, in one run
MaxFails == 2

\* ---------------------------------------------------------- the registry
HIGH == 1
LOW == 0

Buttons == {"up", "down", "left", "right", "press", "key1", "key2", "key3"}

\* mutant: the chip pins of UP and DOWN are exchanged
board_to_bcm_swapped ==
    (31 :> 19) @@ (35 :> 6) @@ (29 :> 5) @@ (37 :> 26) @@
    (33 :> 13) @@ (40 :> 21) @@ (38 :> 20) @@ (36 :> 16)

\* GPIOBridge.board_to_bcm
board_to_bcm ==
    (31 :> 6) @@ (35 :> 19) @@ (29 :> 5) @@ (37 :> 26) @@
    (33 :> 13) @@ (40 :> 21) @@ (38 :> 20) @@ (36 :> 16)

\* mutant: KEY3 is given the board pin of KEY2
gpio_pins_shared ==
    [up |-> 31, down |-> 35, left |-> 29, right |-> 37,
     press |-> 33, key1 |-> 40, key2 |-> 38, key3 |-> 38]

\* GPIOBridge.gpio_pins
gpio_pins ==
    [up |-> 31, down |-> 35, left |-> 29, right |-> 37,
     press |-> 33, key1 |-> 40, key2 |-> 38, key3 |-> 36]

\* the order in which gpio_pins.items() yields the buttons
PinOrder == <<"up", "down", "left", "right", "press", "key1", "key2", "key3">>

NumPins == Len(PinOrder)

BoardPins == {gpio_pins[b] : b \in Buttons}
BcmPins == {board_to_bcm[p] : p \in BoardPins}

ESC == "ESC"
CR == "CR"
SPACE == "SPACE"

\* GPIOBridge.key_mapping; a token is the sequence of the bytes read
key_mapping ==
    (<<ESC, "[", "A">> :> "up") @@ (<<ESC, "[", "B">> :> "down") @@
    (<<ESC, "[", "D">> :> "left") @@ (<<ESC, "[", "C">> :> "right") @@
    (<<SPACE>> :> "press") @@ (<<CR>> :> "press") @@
    (<<"1">> :> "key1") @@ (<<"2">> :> "key2") @@ (<<"3">> :> "key3") @@
    (<<"w">> :> "up") @@ (<<"s">> :> "down") @@ (<<"a">> :> "left") @@
    (<<"d">> :> "right") @@ (<<"q">> :> "quit")

\* mutant: the quit test compares char without lower()
LowerByteIdentity(b) == b

\* str.lower() on one byte
LowerByte(b) ==
    CASE b = "Q" -> "q" [] b = "W" -> "w" [] b = "A" -> "a"
      [] b = "B" -> "b" [] b = "C" -> "c" [] b = "D" -> "d"
      [] OTHER -> b

\* str.lower() on a token
Lower(tok) == [k \in 1..Len(tok) |-> LowerByte(tok[k])]

\* the bytes the terminal delivers in the runs that mix keys, quitting and
\* key noise
TypedBytes == {ESC, "[", "A", "1", "w", "q", "Q", "z", "W"}

\* the bytes of the four arrow keys
ArrowBytes == {ESC, "[", "A", "B", "C", "D"}

\* the one-byte keys of key_mapping
SingleKeys == {SPACE, CR, "1", "2", "3", "w", "s", "a", "d", "q"}

AllBytes == TypedBytes \cup ArrowBytes \cup SingleKeys

\* initially LOW pins, left behind by an earlier run
MaxInitLow == 1
\* export, direction and initial value writes that fail in one setup
MaxSetupFails == 2

\* ------------------------------------------------------------------ state
VARIABLES
    mainpc,       \* the statement the main thread is at
    idx,          \* position of the running for loop in PinOrder
    is_running,   \* GPIOBridge.is_running
    raw,          \* the terminal is in raw mode
    ch,           \* get_char: the bytes accumulated so far
    char,         \* start_bridge: the value get_char returned
    stdin,        \* bytes typed and not yet read
    sel,          \* get_char: what the last select.select call returned
    exitKind,     \* how the loop was left
    level,        \* chip pin -> value file content
    exported,     \* chip pins whose sysfs directory exists
    writable,     \* chip pins configured as outputs
    threads,      \* the pulse threads, in the order they were started
    setupLog,     \* buttons setup_gpio_sysfs went through, in order
    setupFailed,  \* buttons one of whose setup operations failed
    setupResult,  \* what setup_gpio_sysfs returned
    cleanLog,     \* the <<board pin, value, ok>> writes of cleanup_gpio, in order
    failsLeft,    \* write failures the environment may still inject
    setupFailsLeft, \* setup failures the environment may still inject
    typeLeft,     \* bytes the terminal may still deliver
    writeFailed,  \* some gpio_write returned False
    seen,         \* get_char: the bytes unread at entry and those typed since
    arrival,      \* get_char: how the bytes after the first one arrived
    alphabet,     \* the bytes the terminal delivers in this run
    rc            \* process exit code, -1 while the process runs

vars == <<mainpc, idx, is_running, raw, ch, char, stdin, sel, exitKind,
          level, exported, writable, threads, setupLog, setupFailed,
          setupResult, cleanLog, failsLeft, setupFailsLeft, typeLeft,
          writeFailed, seen, arrival, alphabet, rc>>

mainVars == <<mainpc, idx, is_running, raw, ch, char, sel, exitKind,
              setupLog, setupFailed, setupResult, cleanLog, seen, arrival,
              alphabet, rc>>

\* Python's None where a token is expected
NONE == <<"None">>

\* no select call made yet in this get_char
NoSelect == <<>>

\* the sysfs state a run can start from: nothing exported (fresh boot) or
\* every pin exported and configured (left by an earlier run), with at most
\* MaxInitLow pins left LOW
InitLevels ==
    {l \in [BcmPins -> {LOW, HIGH}] :
        Cardinality({p \in BcmPins : l[p] = LOW}) <= MaxInitLow}

InitCommon ==
    /\ mainpc = "idle"
    /\ idx = 0
    /\ is_running = FALSE
    /\ raw = FALSE
    /\ ch = NONE
    /\ char = NONE
    /\ stdin = <<>>
    /\ sel = NoSelect
    /\ exitKind = "none"
    /\ level \in InitLevels
    /\ exported \in {{}, BcmPins}
    /\ writable = exported
    /\ threads = <<>>
    /\ setupLog = <<>>
    /\ setupFailed = {}
    /\ setupResult = "none"
    /\ cleanLog = <<>>
    /\ writeFailed = FALSE
    /\ seen = <<>>
    /\ arrival = "atonce"
    /\ rc = -1

\* what the environment does in a run: it types keys and every operation
\* succeeds; or it types two bytes and lets pin writes fail; or it makes
\* setup operations fail and types nothing; or it makes one setup operation
\* fail and types one byte; or it types one arrow key; or it types any one
\* of the one-byte keys
Scenarios ==
    {[fails |-> 0, setup |-> 0, typed |-> MaxTyped, bytes |-> TypedBytes],
     [fails |-> MaxFails, setup |-> 0, typed |-> 2, bytes |-> TypedBytes],
     [fails |-> 0, setup |-> MaxSetupFails, typed |-> 0, bytes |-> TypedBytes],
     [fails |-> 0, setup |-> 1, typed |-> 1, bytes |-> TypedBytes],
     [fails |-> 0, setup |-> 0, typed |-> 3, bytes |-> ArrowBytes],
     [fails |-> 0, setup |-> 0, typed |-> 1, bytes |-> SingleKeys]}

Init ==
    /\ InitCommon
    /\ \E sc \in Scenarios :
         /\ failsLeft = sc.fails
         /\ setupFailsLeft = sc.setup
         /\ typeLeft = sc.typed
         /\ alphabet = sc.bytes

\* ------------------------------------------------------------- pin driver
\* the outcomes open()/write() on a value file can have: it fails when the
\* pin is not a configured output, and may fail for any other reason
WriteOutcomes(bcm) ==
    {ok \in BOOLEAN : (ok => bcm \in writable) /\ (~ok => (bcm \notin writable \/ failsLeft > 0))}

\* the failure was injected, not forced by the pin's configuration
Injected(bcm, ok) == ~ok /\ bcm \in writable

\* GPIOBridge.gpio_write: the value file after the call
gpio_write(board_pin, value, ok) ==
    IF ok THEN [level EXCEPT ![board_to_bcm[board_pin]] = value] ELSE level

\* the state change of one gpio_write call with outcome ok
DoWrite(board_pin, value, ok) ==
    /\ level' = gpio_write(board_pin, value, ok)
    /\ failsLeft' = IF Injected(board_to_bcm[board_pin], ok) THEN failsLeft - 1 ELSE failsLeft
    /\ writeFailed' = (writeFailed \/ ~ok)

\* ------------------------------------------------------------ setting up
\* start_bridge is called
StartBridge ==
    /\ UNCHANGED <<seen, arrival, alphabet>>
    /\ mainpc = "idle"
    /\ mainpc' = "setup"
    /\ idx' = 1
    /\ UNCHANGED <<is_running, raw, ch, char, stdin, sel, exitKind, level,
                   exported, writable, threads, setupLog, setupFailed,
                   setupResult, cleanLog, failsLeft, setupFailsLeft, typeLeft, writeFailed, rc>>

\* setup_gpio_sysfs: one iteration of the for loop. expOk, dirOk, valOk are
\* the outcomes of the export, direction and value writes.
\* mutant: setup leaves a configured pin at LOW
InitialValueLow == LOW

\* setup_gpio_sysfs: the value written to a pin once it is an output
InitialValue == HIGH

SetupPin ==
    /\ UNCHANGED <<seen, arrival, alphabet>>
    /\ mainpc = "setup"
    /\ idx <= NumPins
    /\ LET action == PinOrder[idx]
           bcm == board_to_bcm[gpio_pins[action]]
           exists == bcm \in exported
       IN \E expOk, dirOk, valOk \in BOOLEAN :
            LET exported1 == IF ~exists /\ expOk THEN exported \cup {bcm} ELSE exported
                expFail == ~exists /\ ~expOk
                dirForced == bcm \notin exported1
                dirFail == ~dirOk /\ ~dirForced
                valFail == dirOk /\ ~valOk
                nFails == (IF expFail THEN 1 ELSE 0) + (IF dirFail THEN 1 ELSE 0)
                          + (IF valFail THEN 1 ELSE 0)
            IN /\ exists => expOk
               /\ dirOk => ~dirForced
               /\ ~dirOk => ~valOk
               /\ nFails <= setupFailsLeft
               /\ setupFailsLeft' = setupFailsLeft - nFails
               /\ exported' = exported1
               /\ writable' = IF dirOk THEN writable \cup {bcm} ELSE writable
               /\ level' = IF dirOk /\ valOk THEN [level EXCEPT ![bcm] = InitialValue]
                                            ELSE level
               /\ setupFailed' = IF expFail \/ ~dirOk \/ ~valOk
                                 THEN setupFailed \cup {action} ELSE setupFailed
               /\ setupLog' = Append(setupLog, action)
    /\ idx' = idx + 1
    /\ UNCHANGED <<mainpc, is_running, raw, ch, char, stdin, sel, exitKind,
                   threads, setupResult, cleanLog, failsLeft, typeLeft,
                   writeFailed, rc>>

\* mutant: setup_gpio_sysfs reports failure when an operation failed
SetupReturnStrict(failed) == failed = {}

\* what setup_gpio_sysfs returns once its loop is over
SetupReturn(failed) == TRUE

\* setup_gpio_sysfs returns; start_bridge sets is_running and enters the loop
SetupDone ==
    /\ UNCHANGED <<seen, arrival, alphabet>>
    /\ mainpc = "setup"
    /\ idx > NumPins
    /\ setupResult' = SetupReturn(setupFailed)
    /\ IF setupResult' = TRUE
       THEN /\ is_running' = TRUE
            /\ mainpc' = "loop"
            /\ rc' = rc
       ELSE /\ is_running' = is_running
            /\ mainpc' = "exited"
            /\ rc' = 1
    /\ UNCHANGED <<idx, raw, ch, char, stdin, sel, exitKind, level, exported,
                   writable, threads, setupLog, setupFailed, cleanLog,
                   failsLeft, setupFailsLeft, typeLeft, writeFailed>>

\* ------------------------------------------------------------ key decoder
\* select.select([sys.stdin], [], [], 0.1): the triple of ready lists; the
\* read list is empty when the timeout passed with nothing to read
select(input) == <<IF input # <<>> THEN <<"stdin">> ELSE <<>>, <<>>, <<>>>>

\* the truth value Python's if gives a tuple: non-empty
Truthy(tuple) == Len(tuple) # 0

\* the select call timed out
TimedOut(result) == result[1] = <<>>

\* mutant: the loop joins the pulse threads before it reads the next key
LoopConditionJoins == is_running /\ \A t \in DOMAIN threads : threads[t].pc = "done"

\* while self.is_running
LoopCondition == is_running

\* while self.is_running: char = self.get_char() up to tty.setraw
GetCharEnter ==
    /\ UNCHANGED alphabet
    /\ mainpc = "loop"
    /\ LoopCondition
    /\ seen' = stdin
    /\ arrival' = "atonce"
    /\ raw' = TRUE
    /\ ch' = NONE
    /\ sel' = NoSelect
    /\ mainpc' = "select1"
    /\ UNCHANGED <<idx, is_running, char, stdin, exitKind, level, exported,
                   writable, threads, setupLog, setupFailed, setupResult,
                   cleanLog, failsLeft, setupFailsLeft, typeLeft, writeFailed, rc>>

\* if select.select(...): at the first, second and third byte
Select(k) ==
    /\ mainpc = <<"select1", "select2", "select3">>[k]
    /\ sel' = select(stdin)
    /\ arrival' = IF k > 1 /\ TimedOut(sel') THEN "late" ELSE arrival
    /\ UNCHANGED <<seen, alphabet>>
    /\ mainpc' = IF Truthy(sel')
                 THEN <<"read1", "read2", "read3">>[k]
                 ELSE IF k = 1 THEN "retNone" ELSE "ret"
    /\ UNCHANGED <<idx, is_running, raw, ch, char, stdin, exitKind, level,
                   exported, writable, threads, setupLog, setupFailed,
                   setupResult, cleanLog, failsLeft, setupFailsLeft, typeLeft, writeFailed, rc>>

\* mutant: the follow-up reads assign ch instead of appending to it
AccumulateAssigns(k, c, b) == <<b>>

\* ch = sys.stdin.read(1) for the first byte, ch += sys.stdin.read(1) after
Accumulate(k, c, b) == IF k = 1 THEN <<b>> ELSE Append(c, b)

\* sys.stdin.read(1): blocks until a byte is there
Read(k) ==
    /\ UNCHANGED <<seen, arrival, alphabet>>
    /\ mainpc = <<"read1", "read2", "read3">>[k]
    /\ stdin # <<>>
    /\ ch' = Accumulate(k, ch, Head(stdin))
    /\ stdin' = Tail(stdin)
    /\ mainpc' = CASE k = 1 -> IF ch' = <<ESC>> THEN "select2" ELSE "ret"
                   [] k = 2 -> "select3"
                   [] k = 3 -> "ret"
    /\ UNCHANGED <<idx, is_running, raw, char, sel, exitKind, level, exported,
                   writable, threads, setupLog, setupFailed, setupResult,
                   cleanLog, failsLeft, setupFailsLeft, typeLeft, writeFailed, rc>>

\* the statements of get_char inside its try, where the terminal is raw
RawPcs == {"select1", "read1", "select2", "read2", "select3", "read3", "ret", "retNone"}

\* mutant: no finally, the terminal is restored on a normal return only
AfterGetCharNoFinally(how) == how = "raise"

\* the raw flag once get_char is left by "return" or by "raise": the
\* finally puts back old_settings, the cooked mode saved at entry
AfterGetChar(how) == FALSE

\* return ch / return None, through the finally that restores the terminal;
\* the locals of get_char end with the call
GetCharReturn ==
    /\ UNCHANGED alphabet
    /\ mainpc \in {"ret", "retNone"}
    /\ char' = IF mainpc = "ret" THEN ch ELSE NONE
    /\ raw' = AfterGetChar("return")
    /\ ch' = NONE
    /\ sel' = NoSelect
    /\ seen' = <<>>
    /\ arrival' = "atonce"
    /\ mainpc' = "dispatch"
    /\ UNCHANGED <<idx, is_running, stdin, exitKind, level, exported,
                   writable, threads, setupLog, setupFailed, setupResult,
                   cleanLog, failsLeft, setupFailsLeft, typeLeft, writeFailed, rc>>

\* ------------------------------------------------------- event dispatcher
\* a pulse thread as threading.Thread(...).start() leaves it
NewThread(action, pin) == [action |-> action, pin |-> pin, pc |-> "high", hist |-> <<>>]

\* mutant: a key is looked up in key_mapping regardless of its case
DecideIgnoringCase(c) ==
    IF c = NONE THEN "continue"
    ELSE IF Lower(c) = <<"q">> THEN "break"
    ELSE IF Lower(c) \in DOMAIN key_mapping
         THEN LET action == key_mapping[Lower(c)]
              IN IF action = "quit" THEN "break"
                 ELSE IF action \in DOMAIN gpio_pins THEN action
                 ELSE "continue"
         ELSE "continue"

\* what the loop body does with char: "continue", "break" or the button to pulse
Decide(c) ==
    IF c = NONE THEN "continue"
    ELSE IF Lower(c) = <<"q">> THEN "break"
    ELSE IF c \in DOMAIN key_mapping
         THEN LET action == key_mapping[c]
              IN IF action = "quit" THEN "break"
                 ELSE IF action \in DOMAIN gpio_pins THEN action
                 ELSE "continue"
         ELSE "continue"

\* the loop body after get_char returned. Once the loop is left nothing
\* reads the terminal any more: the bytes still unread are dropped.
Dispatch ==
    /\ UNCHANGED <<seen, arrival, alphabet>>
    /\ mainpc = "dispatch"
    /\ LET d == Decide(char)
       IN CASE d = "continue" ->
                 /\ mainpc' = "loop"
                 /\ UNCHANGED <<threads, exitKind, stdin, typeLeft>>
            [] d = "break" ->
                 /\ mainpc' = "stop_bridge"
                 /\ exitKind' = "quit"
                 /\ stdin' = <<>>
                 /\ typeLeft' = 0
                 /\ UNCHANGED threads
            [] OTHER ->
                 /\ Len(threads) < MaxPulses
                 /\ threads' = Append(threads, NewThread(d, gpio_pins[d]))
                 /\ mainpc' = "loop"
                 /\ UNCHANGED <<exitKind, stdin, typeLeft>>
    /\ char' = NONE
    /\ UNCHANGED <<idx, is_running, raw, ch, sel, level, exported,
                   writable, setupLog, setupFailed, setupResult, cleanLog,
                   failsLeft, setupFailsLeft, writeFailed, rc>>

\* the statements of the loop, those of get_char included
LoopPcs == {"loop", "select1", "read1", "select2", "read2", "select3", "read3",
            "ret", "retNone", "dispatch"}

\* the statements that can raise an Exception: the terminal calls of
\* get_char, and Thread.start when the loop body reaches it
RaisingPcs == {"loop", "select1", "read1", "select2", "read2", "select3", "read3", "dispatch"}

\* mutant: no finally, only except KeyboardInterrupt leads to stop_bridge
OnRaiseNoFinally(kind) == IF kind = "interrupt" THEN "stop_bridge" ELSE "stopped"

\* where control goes when kind is raised inside the loop: except
\* KeyboardInterrupt and finally both lead to stop_bridge
OnRaise(kind) == "stop_bridge"

\* KeyboardInterrupt or another exception is raised inside the loop; the
\* finally of get_char restores the terminal on the way out
RaiseInLoop(kind) ==
    /\ UNCHANGED alphabet
    /\ mainpc \in LoopPcs
    /\ kind = "error" => mainpc \in RaisingPcs
    /\ (kind = "error" /\ mainpc = "dispatch") => Decide(char) \in Buttons
    /\ raw' = IF mainpc \in RawPcs THEN AfterGetChar("raise") ELSE raw
    /\ ch' = NONE
    /\ char' = NONE
    /\ sel' = NoSelect
    /\ seen' = <<>>
    /\ arrival' = "atonce"
    /\ stdin' = <<>>
    /\ typeLeft' = 0
    /\ exitKind' = kind
    /\ mainpc' = OnRaise(kind)
    /\ UNCHANGED <<idx, is_running, level, exported, writable, threads,
                   setupLog, setupFailed, setupResult, cleanLog, failsLeft,
                   setupFailsLeft, writeFailed, rc>>

\* ------------------------------------------------------------------ pulse
\* mutant: the pulse gives up when the defensive HIGH write fails
AfterHighAborts(ok) == IF ok THEN "low" ELSE "done"

\* the statement a pulse goes to after its defensive HIGH write
AfterHigh(ok) == "low"

\* the statement a pulse goes to after its release write
AfterRelease(ok) == "done"

\* simulate_button_press: self.gpio_write(pin, 1), result ignored
PulseHigh(t) ==
    /\ mainpc # "exited"
    /\ t \in DOMAIN threads
    /\ threads[t].pc = "high"
    /\ \E ok \in WriteOutcomes(board_to_bcm[threads[t].pin]) :
         /\ DoWrite(threads[t].pin, HIGH, ok)
         /\ threads' = [threads EXCEPT ![t].pc = AfterHigh(ok),
                                       ![t].hist = Append(@, <<HIGH, ok>>)]
    /\ UNCHANGED <<mainVars, stdin, exported, writable, setupFailsLeft, typeLeft>>

\* mutant: the pulse ends after the LOW write and never releases
AfterLowSkipsRelease(ok) == "done"

\* mutant: the pulse goes on to the release whatever the LOW write returned
AfterLowAlwaysRelease(ok) == "release"

\* the statement a pulse goes to after its LOW write
AfterLow(ok) == IF ok THEN "release" ELSE "done"

\* simulate_button_press: if self.gpio_write(pin, 0)
PulseLow(t) ==
    /\ mainpc # "exited"
    /\ t \in DOMAIN threads
    /\ threads[t].pc = "low"
    /\ \E ok \in WriteOutcomes(board_to_bcm[threads[t].pin]) :
         /\ DoWrite(threads[t].pin, LOW, ok)
         /\ threads' = [threads EXCEPT ![t].pc = AfterLow(ok),
                                       ![t].hist = Append(@, <<LOW, ok>>)]
    /\ UNCHANGED <<mainVars, stdin, exported, writable, setupFailsLeft, typeLeft>>

\* simulate_button_press: if self.gpio_write(pin, 1) after the hold
PulseRelease(t) ==
    /\ mainpc # "exited"
    /\ t \in DOMAIN threads
    /\ threads[t].pc = "release"
    /\ \E ok \in WriteOutcomes(board_to_bcm[threads[t].pin]) :
         /\ DoWrite(threads[t].pin, HIGH, ok)
         /\ threads' = [threads EXCEPT ![t].pc = AfterRelease(ok),
                                       ![t].hist = Append(@, <<HIGH, ok>>)]
    /\ UNCHANGED <<mainVars, stdin, exported, writable, setupFailsLeft, typeLeft>>

\* ---------------------------------------------------------- shutting down
\* stop_bridge: self.is_running = False, then cleanup_gpio starts
StopBridge ==
    /\ UNCHANGED <<seen, arrival, alphabet>>
    /\ mainpc = "stop_bridge"
    /\ is_running' = FALSE
    /\ mainpc' = "cleanup"
    /\ idx' = 1
    /\ UNCHANGED <<raw, ch, char, stdin, sel, exitKind, level, exported,
                   writable, threads, setupLog, setupFailed, setupResult,
                   cleanLog, failsLeft, setupFailsLeft, typeLeft, writeFailed, rc>>

\* mutant: the loop of cleanup_gpio leaves out the last registered pin
CleanupPinsShort == [k \in 1..(NumPins - 1) |-> gpio_pins[PinOrder[k]]]

\* the board pins the for loop of cleanup_gpio goes through, in order
CleanupPins == [k \in 1..NumPins |-> gpio_pins[PinOrder[k]]]

\* mutant: cleanup_gpio gives up on the remaining pins after a failed write
AfterCleanupWriteAborts(i, ok) == IF ok THEN i + 1 ELSE NumPins + 1

\* cleanup_gpio: the for loop goes to the next pin whatever gpio_write returned
AfterCleanupWrite(i, ok) == i + 1

\* cleanup_gpio: one iteration of the for loop, result of the write ignored
CleanupPin ==
    /\ UNCHANGED <<seen, arrival, alphabet>>
    /\ mainpc = "cleanup"
    /\ idx <= Len(CleanupPins)
    /\ LET pin == CleanupPins[idx]
       IN \E ok \in WriteOutcomes(board_to_bcm[pin]) :
            /\ DoWrite(pin, HIGH, ok)
            /\ cleanLog' = Append(cleanLog, <<pin, HIGH, ok>>)
            /\ idx' = AfterCleanupWrite(idx, ok)
    /\ UNCHANGED <<mainpc, is_running, raw, ch, char, stdin, sel, exitKind,
                   exported, writable, threads, setupLog, setupFailed,
                   setupResult, setupFailsLeft, typeLeft, rc>>

\* cleanup_gpio and stop_bridge return; the finally of start_bridge is over
CleanupDone ==
    /\ UNCHANGED <<seen, arrival, alphabet>>
    /\ mainpc = "cleanup"
    /\ idx > Len(CleanupPins)
    /\ mainpc' = "stopped"
    /\ UNCHANGED <<idx, is_running, raw, ch, char, stdin, sel, exitKind, level,
                   exported, writable, threads, setupLog, setupFailed,
                   setupResult, cleanLog, failsLeft, setupFailsLeft, typeLeft, writeFailed, rc>>

\* main: the exit code after start_bridge returned True or raised
ExitCode(kind) == IF kind = "error" THEN 1 ELSE 0

\* start_bridge returns (or re-raises) and the process exits; the daemon
\* pulse threads end with it wherever they are
ProcessExit ==
    /\ UNCHANGED <<seen, arrival, alphabet>>
    /\ mainpc = "stopped"
    /\ mainpc' = "exited"
    /\ rc' = ExitCode(exitKind)
    /\ UNCHANGED <<idx, is_running, raw, ch, char, stdin, sel, exitKind, level,
                   exported, writable, threads, setupLog, setupFailed,
                   setupResult, cleanLog, failsLeft, setupFailsLeft, typeLeft, writeFailed>>

\* ------------------------------------------------------------ environment
\* the statements at which get_char polls or reads the terminal
WaitPcs == {"select1", "read1", "select2", "read2", "select3", "read3"}

\* the statements of get_char after the first byte was read
FollowUpPcs == {"select2", "read2", "select3", "read3"}

\* a byte arrives on the terminal. A byte that arrives while the main
\* thread is elsewhere in the loop is seen exactly as one that arrives at
\* the next select, so arrivals are taken while get_char polls or reads.
TypeByte(b) ==
    /\ UNCHANGED alphabet
    /\ b \in alphabet
    /\ mainpc \in WaitPcs
    /\ typeLeft > 0
    /\ typeLeft' = typeLeft - 1
    /\ stdin' = Append(stdin, b)
    /\ seen' = Append(seen, b)
    /\ arrival' = IF mainpc \in FollowUpPcs /\ arrival = "atonce" THEN "split" ELSE arrival
    /\ UNCHANGED <<mainpc, idx, is_running, raw, ch, char, sel, exitKind,
                   setupLog, setupFailed, setupResult, cleanLog, rc, level,
                   exported, writable, threads, failsLeft, setupFailsLeft,
                   writeFailed>>

\* ---------------------------------------------------------- specification
Next ==
    \/ StartBridge
    \/ SetupPin
    \/ SetupDone
    \/ GetCharEnter
    \/ \E k \in 1..3 : Select(k)
    \/ \E k \in 1..3 : Read(k)
    \/ GetCharReturn
    \/ Dispatch
    \/ \E kind \in {"interrupt", "error"} : RaiseInLoop(kind)
    \/ \E t \in 1..MaxPulses : PulseHigh(t)
    \/ \E t \in 1..MaxPulses : PulseLow(t)
    \/ \E t \in 1..MaxPulses : PulseRelease(t)
    \/ StopBridge
    \/ CleanupPin
    \/ CleanupDone
    \/ ProcessExit
    \/ \E b \in AllBytes : TypeByte(b)

Spec == Init /\ [][Next]_vars

TypeOK ==
    /\ mainpc \in LoopPcs \cup {"idle", "setup", "stop_bridge", "cleanup", "stopped", "exited"}
    /\ idx \in 0..(NumPins + 1)
    /\ is_running \in BOOLEAN
    /\ raw \in BOOLEAN
    /\ level \in [BcmPins -> {LOW, HIGH}]
    /\ writable \subseteq exported
    /\ exported \subseteq BcmPins
    /\ Len(threads) <= MaxPulses
    /\ failsLeft >= 0
    /\ typeLeft >= 0

\* ------------------------------------------------------------ properties
\* the values a pulse thread has written, failed attempts included
Values(hist) == [k \in 1..Len(hist) |-> hist[k][1]]

\* no write of the pulse failed so far
AllOk(hist) == \A k \in 1..Len(hist) : hist[k][2]

IsPrefix(s, t) == Len(s) <= Len(t) /\ s = SubSeq(t, 1, Len(s))

\* how often board pin p is written in the log of cleanup_gpio
CleanCount(p) == Cardinality({k \in 1..Len(cleanLog) : cleanLog[k][1] = p})

\* C1: a pulse none of whose writes failed writes HIGH, LOW, HIGH in this
\* order with no step skipped: what it has written is always a prefix of
\* HIGH, LOW, HIGH, it is the whole of it when the pulse is over, and the
\* release that completes the pulse leaves its pin at HIGH.
C1_PulseOrder ==
    /\ [](\A t \in DOMAIN threads :
            AllOk(threads[t].hist) =>
              /\ IsPrefix(Values(threads[t].hist), <<HIGH, LOW, HIGH>>)
              /\ threads[t].pc = "done" => Values(threads[t].hist) = <<HIGH, LOW, HIGH>>)
    /\ [][\A t \in DOMAIN threads :
            (threads[t].pc # "done" /\ threads'[t].pc = "done" /\ AllOk(threads'[t].hist))
              => level'[board_to_bcm[threads[t].pin]] = HIGH]_vars

C1_Witness ==
    \E t \in DOMAIN threads :
        /\ threads[t].pc = "done"
        /\ threads[t].hist = <<<<HIGH, TRUE>>, <<LOW, TRUE>>, <<HIGH, TRUE>>>>
        /\ level[board_to_bcm[threads[t].pin]] = HIGH

\* C2 (as claimed): absent failures, once stop_bridge has returned every
\* registered pin is at HIGH, whatever the pulse threads in flight did.
C2_AllHighWhenStopped ==
    (mainpc \in {"stopped", "exited"} /\ ~writeFailed /\ setupFailed = {})
        => \A p \in BcmPins : level[p] = HIGH

\* C3: whenever the loop was left (quit key, KeyboardInterrupt or another
\* exception), stop_bridge and the whole of cleanup_gpio have run by the
\* time start_bridge is over.
C3_ShutdownAlwaysRuns ==
    (exitKind # "none" /\ mainpc \in {"stopped", "exited"})
        => /\ is_running = FALSE
           /\ \A p \in BoardPins : CleanCount(p) >= 1

C3_Witness ==
    /\ mainpc = "stopped"
    /\ exitKind = "error"
    /\ \A p \in BoardPins : CleanCount(p) >= 1

\* C4: shutdown writes HIGH to every registered pin exactly once: while it
\* runs no pin is written twice and every write is a HIGH write, and when it
\* is over no pin was skipped.
C4_CleanupOncePerPin ==
    /\ \A k \in 1..Len(cleanLog) : cleanLog[k][1] \in BoardPins /\ cleanLog[k][2] = HIGH
    /\ \A p \in BoardPins : CleanCount(p) <= 1
    /\ mainpc \in {"stopped", "exited"} => \A p \in BoardPins : CleanCount(p) = 1

C4_Witness ==
    /\ mainpc = "stopped"
    /\ threads = <<>>
    /\ Len(cleanLog) = NumPins

\* C5 (as claimed): when the poll of get_char times out with nothing to
\* read, get_char returns None instead of going on to a read that blocks.
C5_NoEventOnTimeout ==
    mainpc = "read1" => ~TimedOut(sel)

\* C6 (as claimed): every pulse that was started runs to its end; none is
\* cut short by the shutdown and the exit of the process.
C6_PulsesRunToCompletion ==
    mainpc = "exited" => \A t \in DOMAIN threads : threads[t].pc = "done"

\* the token is neither a key of key_mapping nor a quit key
Unrecognized(c) == c # NONE /\ c \notin DOMAIN key_mapping /\ c \notin {<<"q">>, <<"Q">>}

\* the token makes the loop quit
IsQuit(c) == c \in {<<"q">>, <<"Q">>} \/ (c \in DOMAIN key_mapping /\ key_mapping[c] = "quit")

\* C7: when the token is 'q' or 'Q' the step of the main thread that handles
\* it leaves the loop for stop_bridge and starts no pulse, and a run that
\* left the loop on a quit key has gone through the whole of cleanup_gpio
\* when the process exits.
C7_QuitStopsAndCleansUp ==
    /\ [][(mainpc = "dispatch" /\ IsQuit(char) /\ mainpc' # mainpc)
            => (mainpc' = "stop_bridge" /\ threads' = threads)]_vars
    /\ []((exitKind = "quit" /\ mainpc = "exited")
            => (\A p \in BoardPins : CleanCount(p) = 1))

C7_Witness ==
    /\ mainpc = "exited"
    /\ exitKind = "quit"
    /\ \A p \in BoardPins : CleanCount(p) = 1

C9_FailedPressAborts ==
    /\ [](\A t \in DOMAIN threads :
            (Len(threads[t].hist) >= 2 /\ threads[t].hist[2] = <<LOW, FALSE>>)
                => (Len(threads[t].hist) = 2 /\ threads[t].pc = "done"))
    /\ [][\A t \in DOMAIN threads :
            (Len(threads[t].hist) = 1 /\ Len(threads'[t].hist) = 2
                /\ threads'[t].hist[2] = <<LOW, FALSE>>)
                => UNCHANGED <<mainpc, exitKind, is_running, rc>>]_vars

C9_Witness ==
    \E t \in DOMAIN threads :
        /\ Len(threads[t].hist) = 2
        /\ threads[t].hist[2] = <<LOW, FALSE>>
        /\ mainpc \in LoopPcs

\* C10: whatever setup operations fail, setup_gpio_sysfs goes through every
\* registered pin in order, returns True, and start_bridge enters the loop.
C10_SetupBestEffort ==
    /\ mainpc = "setup" => setupLog = SubSeq(PinOrder, 1, idx - 1)
    /\ mainpc \notin {"idle", "setup"} =>
         /\ setupLog = PinOrder
         /\ setupResult = TRUE
         /\ exitKind = "none" => (mainpc \in LoopPcs /\ is_running)

C10_Witness ==
    /\ mainpc = "loop"
    /\ Cardinality(setupFailed) >= 2
    /\ setupLog = PinOrder
    /\ is_running

\* C11: the main loop never waits on a pulse: at every statement of the
\* loop the main thread can take its step whatever the pulse threads are
\* doing (a read needs a byte, and starting a pulse needs a free slot within
\* MaxPulses; nothing else is needed).
C11_MainNeverWaits ==
    /\ mainpc = "loop" => ENABLED GetCharEnter
    /\ \A k \in 1..3 : mainpc = <<"select1", "select2", "select3">>[k] => ENABLED Select(k)
    /\ \A k \in 1..3 :
         (mainpc = <<"read1", "read2", "read3">>[k] /\ stdin # <<>>) => ENABLED Read(k)
    /\ mainpc \in {"ret", "retNone"} => ENABLED GetCharReturn
    /\ (mainpc = "dispatch" /\ Len(threads) < MaxPulses) => ENABLED Dispatch

\* a second key is being decoded while two earlier pulses on the same pin
\* are both in flight
C11_Witness ==
    /\ mainpc \in {"select1", "read1"}
    /\ Len(threads) >= 2
    /\ threads[1].pin = threads[2].pin
    /\ threads[1].pc # "done"
    /\ threads[2].pc # "done"

\* the token a stream of bytes stands for: three bytes after an escape
\* byte, one byte otherwise
Expected(stream) == IF stream[1] = ESC THEN SubSeq(stream, 1, 3) ELSE <<stream[1]>>

\* C12: when no follow-up poll timed out, get_char returns the token the
\* byte stream stands for, the same whether the bytes of an escape sequence
\* were all there at the first read or arrived split across the reads.
C12_SplitSameToken ==
    (mainpc = "ret" /\ arrival \in {"atonce", "split"})
        => /\ ch = Expected(seen)
           /\ seen[1] = ESC => Len(ch) = 3

C12_Witness ==
    /\ mainpc = "ret"
    /\ arrival = "split"
    /\ ch = <<ESC, "[", "A">>

\* C13 (as claimed): once a follow-up poll after an escape byte has timed
\* out, get_char returns what it has accumulated instead of going on to a
\* read that blocks until more input arrives.
C13_TruncatesOnTimeout ==
    arrival = "late" => mainpc \notin {"read2", "read3"}

\* C14: the terminal is in raw mode only while the main thread is inside
\* the try of get_char, and a step that raises out of get_char while the
\* terminal is raw leaves it restored.
C14_RawOnlyInGetChar ==
    /\ [](raw => mainpc \in {"select1", "read1", "select2", "read2",
                             "select3", "read3", "ret", "retNone"})
    /\ [][(raw /\ exitKind' # exitKind) => ~raw']_vars

\* get_char has returned an arrow key and the terminal is restored
C14_Witness ==
    /\ mainpc = "dispatch"
    /\ char = <<ESC, "[", "A">>
    /\ ~raw

\* the board pin and the chip pin every key is claimed to pulse
ClaimedPins ==
    (<<"1">> :> <<40, 21>>) @@ (<<"2">> :> <<38, 20>>) @@ (<<"3">> :> <<36, 16>>) @@
    (<<ESC, "[", "A">> :> <<31, 6>>) @@ (<<"w">> :> <<31, 6>>) @@
    (<<ESC, "[", "B">> :> <<35, 19>>) @@ (<<"s">> :> <<35, 19>>) @@
    (<<ESC, "[", "D">> :> <<29, 5>>) @@ (<<"a">> :> <<29, 5>>) @@
    (<<ESC, "[", "C">> :> <<37, 26>>) @@ (<<"d">> :> <<37, 26>>) @@
    (<<SPACE>> :> <<33, 13>>) @@ (<<CR>> :> <<33, 13>>)

\* the chip pin claimed for a board pin
ClaimedChip(board) ==
    CHOOSE c \in 0..40 : \E tok \in DOMAIN ClaimedPins : ClaimedPins[tok] = <<board, c>>

\* C15: the step of the main thread that handles a recognised key other
\* than quit starts exactly one pulse thread, on the board pin claimed for
\* that key, and leaves the earlier threads alone; and every write of a pulse
\* thread changes no chip pin but the one claimed for its board pin, which
\* takes the written value when the write succeeds.
C15_KeyPulsesItsPin ==
    /\ [][(mainpc = "dispatch" /\ char \in DOMAIN ClaimedPins /\ mainpc' # mainpc)
            => \/ exitKind' \in {"interrupt", "error"}
               \/ /\ mainpc' = "loop"
                  /\ Len(threads') = Len(threads) + 1
                  /\ SubSeq(threads', 1, Len(threads)) = threads
                  /\ threads'[Len(threads')].pin = ClaimedPins[char][1]
                  /\ threads'[Len(threads')].hist = <<>>]_vars
    /\ [][\A t \in DOMAIN threads :
            Len(threads'[t].hist) = Len(threads[t].hist) + 1
              => LET chip == ClaimedChip(threads[t].pin)
                     w == threads'[t].hist[Len(threads'[t].hist)]
                 IN /\ \A p \in DOMAIN level : p # chip => level'[p] = level[p]
                    /\ w[2] => level'[chip] = w[1]]_vars

\* the pulse started for the right arrow key is over and has pulsed chip pin 26
C15_Witness ==
    \E t \in DOMAIN threads :
        /\ threads[t].pin = 37
        /\ threads[t].pc = "done"
        /\ AllOk(threads[t].hist)
        /\ Len(threads[t].hist) = 3
        /\ level[26] = HIGH

\* f maps different arguments to different values
Injective(f) == \A x, y \in DOMAIN f : f[x] = f[y] => x = y

\* C16: each of the eight logical buttons has a board pin and each of these
\* board pins has a chip pin, no two buttons share a board pin or a chip
\* pin, and every action of key_mapping other than quit is one of the eight
\* buttons.
C16_TablesTotalInjective ==
    /\ DOMAIN gpio_pins = {"up", "down", "left", "right", "press", "key1", "key2", "key3"}
    /\ \A b \in DOMAIN gpio_pins : gpio_pins[b] \in DOMAIN board_to_bcm
    /\ Injective(gpio_pins)
    /\ Injective(board_to_bcm)
    /\ Injective([b \in DOMAIN gpio_pins |-> board_to_bcm[gpio_pins[b]]])
    /\ \A tok \in DOMAIN key_mapping :
         key_mapping[tok] # "quit" => key_mapping[tok] \in DOMAIN gpio_pins
    /\ \A t \in DOMAIN threads :
         /\ threads[t].action \in DOMAIN gpio_pins
         /\ threads[t].pin = gpio_pins[threads[t].action]
         /\ threads[t].pin \in DOMAIN board_to_bcm

\* setup went through the eight buttons of a fresh system and exported
\* eight different chip pins
C16_Witness ==
    /\ mainpc = "loop"
    /\ Len(setupLog) = 8
    /\ setupFailed = {}
    /\ Cardinality(exported) = 8
    /\ Cardinality(writable) = 8

\* the pulse t made a write in this step and the write failed
FailedPulseWrite(t) ==
    /\ Len(threads'[t].hist) = Len(threads[t].hist) + 1
    /\ ~threads'[t].hist[Len(threads'[t].hist)][2]

\* cleanup_gpio made a write in this step and the write failed
FailedCleanupWrite ==
    /\ Len(cleanLog') = Len(cleanLog) + 1
    /\ ~cleanLog'[Len(cleanLog')][3]

\* C17: a failed value write never ends the process or the phase it is in:
\* a pulse whose write failed leaves the main thread where it was, a failed
\* write of cleanup_gpio is followed by the next pin of the loop, and the
\* shutdown ends only after every registered pin was written
C17_WriteFailureNeverFatal ==
    [][/\ \A t \in DOMAIN threads :
            FailedPulseWrite(t) =>
                /\ UNCHANGED <<mainpc, is_running, exitKind, rc>>
                /\ mainpc' # "exited"
       /\ FailedCleanupWrite =>
            /\ mainpc' = "cleanup"
            /\ idx' = idx + 1
            /\ UNCHANGED <<exitKind, rc>>
       /\ (mainpc # "stopped" /\ mainpc' = "stopped") =>
            /\ Len(cleanLog') = NumPins
            /\ \A k \in 1..NumPins : cleanLog'[k][1] = gpio_pins[PinOrder[k]]
      ]_vars

\* the shutdown ended after a write of cleanup_gpio failed on a pin that is
\* not the last one, and a pulse had a failed write too
C17_Witness ==
    /\ mainpc = "stopped"
    /\ Len(cleanLog) = NumPins
    /\ \E k \in 1..(NumPins - 1) : ~cleanLog[k][3]
    /\ \E t \in DOMAIN threads : \E h \in 1..Len(threads[t].hist) : ~threads[t].hist[h][2]

\* C18: nothing is retried: a pulse makes at most three writes, HIGH, LOW,
\* HIGH, each once and in that order; after the defensive HIGH write the pulse
\* is at its LOW write whatever the write returned, and after the release
\* write the pulse is over whatever the write returned
C18_NoRetry ==
    \A t \in DOMAIN threads :
        LET h == threads[t].hist
        IN /\ Len(h) <= 3
           /\ \A k \in 1..Len(h) : h[k][1] = <<HIGH, LOW, HIGH>>[k]
           /\ Len(h) = 0 => threads[t].pc = "high"
           /\ Len(h) = 1 => threads[t].pc = "low"
           /\ Len(h) = 2 => threads[t].pc = (IF h[2][2] THEN "release" ELSE "done")
           /\ Len(h) = 3 => threads[t].pc = "done"

\* one pulse went on to its LOW write and its release after its defensive
\* HIGH write failed, and another pulse is over after its release write failed
C18_Witness ==
    /\ \E t \in DOMAIN threads :
         /\ Len(threads[t].hist) = 3
         /\ ~threads[t].hist[1][2]
         /\ threads[t].hist[2] = <<LOW, TRUE>>
    /\ \E t \in DOMAIN threads :
         /\ Len(threads[t].hist) = 3
         /\ ~threads[t].hist[3][2]
         /\ threads[t].pc = "done"

\* every pulse that was started is over
Quiescent == \A t \in DOMAIN threads : threads[t].pc = "done"

\* C19: while the bridge is running and no write has failed, once every pulse
\* that was started is over, every pin that was pulsed is HIGH, however the
\* writes of pulses on the same pin were interleaved
C19_HighAtQuiescence ==
    (is_running /\ mainpc # "exited" /\ ~writeFailed /\ Quiescent) =>
        \A t \in DOMAIN threads : level[board_to_bcm[threads[t].pin]] = HIGH

\* two pulses on the same pin are both over, the bridge still running
C19_Witness ==
    /\ is_running /\ mainpc # "exited" /\ ~writeFailed /\ Quiescent
    /\ \E t, u \in DOMAIN threads :
         /\ t # u
         /\ threads[t].pin = threads[u].pin
         /\ Len(threads[t].hist) = 3 /\ Len(threads[u].hist) = 3

\* the pulse t is between its LOW write and its release write on chip pin p
Pressing(t, p) ==
    /\ board_to_bcm[threads[t].pin] = p
    /\ threads[t].pc = "release"

\* the step is the LOW write of a pulse on chip pin p and nothing else
PulseLowStep(p) ==
    /\ UNCHANGED mainVars
    /\ \E t \in DOMAIN threads :
         /\ board_to_bcm[threads[t].pin] = p
         /\ threads[t].pc = "low"
         /\ threads'[t].hist = Append(threads[t].hist, <<LOW, TRUE>>)

\* C20: once setup is over with every pin configured, and while no write has
\* failed and the process has not exited, a registered pin is LOW only while
\* a pulse on it is between its LOW write and its release; and the only step
\* that takes a pin to LOW is the LOW write of a pulse, never a step of
\* setup, of the main loop or of the shutdown
C20_LowOnlyWhilePressed ==
    /\ []((mainpc \notin {"idle", "setup", "exited"} /\ setupFailed = {} /\ ~writeFailed) =>
            \A p \in BcmPins : level[p] = LOW => \E t \in DOMAIN threads : Pressing(t, p))
    /\ [][\A p \in BcmPins : (level[p] # LOW /\ level'[p] = LOW) => PulseLowStep(p)]_vars

\* a pin is LOW under a pulse that waits to release it, while a second pulse
\* on the same pin has been started
C20_Witness ==
    /\ mainpc \notin {"idle", "setup", "exited"} /\ setupFailed = {} /\ ~writeFailed
    /\ \E p \in BcmPins : \E t, u \in DOMAIN threads :
         /\ t # u
         /\ level[p] = LOW
         /\ Pressing(t, p)
         /\ board_to_bcm[threads[u].pin] = p
         /\ threads[u].pc = "low"

====
